---- MODULE Spec2Model ----
(***************************************************************************)
(* Prover participation tracker: the multi-endpoint RPC pool, the windowed *)
(* scan, the TTL result cache, the HTTP handlers and the watchlist sweep.  *)
(*                                                                         *)
(* Two programs are modelled.  "optimized" is the server of                *)
(* src/unnamed/part_000 (OptimizedRpcPool, OptimizedProverClient, the      *)
(* NodeCache, checkWatchlist).  "legacy" is the server section of          *)
(* src/tg_bot.js (RpcPool, ProverClient).                                  *)
(*                                                                         *)
(* Each concern has its own specification over the same variables:         *)
(*   SpecPool    concurrent logical calls on one endpoint pool             *)
(*   SpecScan    one scanParticipation run, query by query                 *)
(*   SpecCache   HTTP requests, the cache and the clock                    *)
(*   SpecSweep   the watchlist, the timer and the sweeps                   *)
(*   SpecBot     the Telegram bot of src/tg_bot.js: /watch, /unwatch and   *)
(*               monitorOnce, the server it queries being its environment  *)
(*   SpecReport  /scan-text requests that differ in epochHours             *)
(*   SpecLive    pool calls, scans and sweeps under weak fairness of       *)
(*               their continuations, for the progress properties          *)
(***************************************************************************)
EXTENDS Integers, Sequences, FiniteSets, TLC

\* ---------------------------------------------------------------- bounds
MaxUrls == 4
MaxCalls == 2
MaxEpoch == 3
MaxReward == 2
MaxLookback == 3
MaxBatchSize == 2
MaxShares == 1
MaxReqs == 1
MaxTime == 60001
MaxChats == 1
MaxSweeps == 2
MaxAdvance == 1

\* ------------------------------------------------------ program constants
\* default value of callWithRetry's `retries` parameter
Retries == 3
\* JavaScript null (an absent lastEpochParticipated, lastNotifiedEpoch)
Null == -1
\* CACHE_TTL, seconds
CACHE_TTL == 60
\* idle epochs from which a prover no longer counts as active
ActivityThreshold == 6
\* default of the lookback query parameter, and the sweep's lookback
DefaultLookback == 600
\* default of the epochHours query parameter
DefaultEpochHours == 5
\* idle epochs from which checkWatchlist alerts
AlertThreshold == 6
\* the bot's ALERT_IF_IDLE_EPOCHS default
THRESH_IDLE == 6

VARIABLES
  program,       \* which server runs: "optimized" or "legacy"
  urlsLength,    \* this.urls.length
  up,            \* endpoint -> whether a call sent to it is answered
  currentIndex,  \* OptimizedRpcPool.currentIndex
  index,         \* RpcPool.index
  call,          \* logical call -> its position in callWithRetry / safeCall
  chainEpoch,    \* the rollup's getCurrentEpoch()
  reward,        \* epoch -> getSpecificProverRewardsForEpoch(epoch, prover)
  shares,        \* the rollup's getSharesFor(prover)
  batchSize,     \* BATCH_SIZE
  scan,          \* the scanParticipation activation under observation
  queryLog,      \* epochs for which that activation issued a reward query
  obtained,      \* [q, epoch, r]: the reward the q-th query contributed
  cache,         \* the NodeCache: entries [key, val, t], t the expiry time
  now,           \* Date.now(), milliseconds
  lastStore,     \* history: time and value of the latest cache.set of a scan result
  req,           \* HTTP request -> its position in the /scan or /scan-text handler
  watchlist,     \* the watchlist Map, its entries in insertion order
  sweep,         \* checkWatchlist activation -> its position and locals
  alerts,        \* history: [chatId, epoch] of the alerts emitted for an entry
  repeats        \* history: those emitted more than once

poolVars == <<urlsLength, up, currentIndex, index, call>>
chainVars == <<chainEpoch, reward, shares>>
scanVars == <<batchSize, scan, queryLog, obtained>>
cacheVars == <<cache, now, lastStore>>
sweepVars == <<watchlist, sweep, alerts, repeats>>

vars == <<program, poolVars, chainVars, scanVars, cacheVars, req, sweepVars>>

otherThanPool == <<chainVars, scanVars, cacheVars, req, sweepVars>>

otherThanScan == <<program, poolVars, chainVars, req, sweepVars>>

\* ------------------------------------------------- components at rest
\* a scanParticipation activation before it is called
IdleScan ==
  [pc |-> "idle", prover |-> "", lookback |-> 0, hit |-> FALSE, startTime |-> 0,
   currentEpoch |-> 0, epochs |-> <<>>, sleeps |-> 0, b |-> 0, raw |-> <<>>,
   results |-> <<>>, e |-> 0, totalRewards |-> 0, participatedCount |-> 0,
   lastEpochParticipated |-> Null, result |-> [window |-> 0]]

PoolAtRest ==
  /\ urlsLength = 1
  /\ up = [e \in {0} |-> TRUE]
  /\ currentIndex = 0
  /\ index = 0
  /\ call = <<>>

ChainAtRest ==
  /\ chainEpoch = 0
  /\ reward = [e \in {0} |-> 0]
  /\ shares = 0

ScanAtRest ==
  /\ batchSize = 1
  /\ scan = IdleScan
  /\ queryLog = <<>>
  /\ obtained = {}

NoStore == [at |-> Null, val |-> [window |-> 0]]

CacheAtRest ==
  /\ cache = {}
  /\ now = 0
  /\ lastStore = NoStore

ReqsAtRest == req = <<>>

SweepAtRest ==
  /\ watchlist = <<>>
  /\ sweep = <<>>
  /\ alerts = {}
  /\ repeats = {}

Programs == {"optimized", "legacy"}

\* ------------------------------------------------------------ helpers
Range(s) == {s[k] : k \in 1..Len(s)}

NoDuplicates(s) == \A j, k \in 1..Len(s) : j # k => s[j] # s[k]

\* ================================================================ pool
CallIds == 1..MaxCalls

Endpoints == 0..(urlsLength - 1)

IdleCall == [pc |-> "idle", i |-> 0, ep |-> 0, tried |-> <<>>, rotations |-> 0,
             result |-> Null]

\* rotate(): the index advances round-robin, wrapping
RotateIndex(ix) == (ix + 1) % urlsLength

\* a loop that goes on retrying whatever the attempt
MayRetryForever(i) == TRUE

\* the loop bound of callWithRetry: whether attempt i may be followed by another
MayRetry(i) == i < Retries - 1

\* the recursion bound of safeCall
SafeMayRetry(attempt) == attempt < urlsLength - 1

\* provider.call(req) is issued on the provider of the pool's current index
IssueOn(c, ix, i) ==
  [call EXCEPT ![c].pc = "inflight", ![c].i = i, ![c].ep = ix,
               ![c].tried = Append(@, ix)]

\* callWithRetry(req): the first loop iteration issues the call at once
callWithRetry(c) ==
  /\ program = "optimized"
  /\ call[c].pc = "idle"
  /\ call' = IssueOn(c, currentIndex, 0)
  /\ UNCHANGED <<program, urlsLength, up, currentIndex, index>>
  /\ UNCHANGED otherThanPool

\* the raced promise resolves: the endpoint answered within RPC_TIMEOUT
callWithRetryReturn(c) ==
  /\ program = "optimized"
  /\ call[c].pc = "inflight"
  /\ up[call[c].ep]
  /\ call' = [call EXCEPT ![c].pc = "returned", ![c].result = call[c].ep]
  /\ UNCHANGED <<program, urlsLength, up, currentIndex, index>>
  /\ UNCHANGED otherThanPool

\* catch (err): rotate and sleep when attempts remain, else rethrow
callWithRetryCatch(c) ==
  /\ program = "optimized"
  /\ call[c].pc = "inflight"
  /\ ~up[call[c].ep]
  /\ IF MayRetry(call[c].i)
       THEN /\ currentIndex' = RotateIndex(currentIndex)
            /\ call' = [call EXCEPT ![c].pc = "sleep", ![c].rotations = @ + 1]
       ELSE /\ call' = [call EXCEPT ![c].pc = "thrown"]
            /\ UNCHANGED currentIndex
  /\ UNCHANGED <<program, urlsLength, up, index>>
  /\ UNCHANGED otherThanPool

\* after sleep(1000): continue, i++ and the next provider.call
callWithRetryContinue(c) ==
  /\ program = "optimized"
  /\ call[c].pc = "sleep"
  /\ call' = IssueOn(c, currentIndex, call[c].i + 1)
  /\ UNCHANGED <<program, urlsLength, up, currentIndex, index>>
  /\ UNCHANGED otherThanPool

\* safeCall(req, attempt = 0)
safeCall(c) ==
  /\ program = "legacy"
  /\ call[c].pc = "idle"
  /\ call' = IssueOn(c, index, 0)
  /\ UNCHANGED <<program, urlsLength, up, currentIndex, index>>
  /\ UNCHANGED otherThanPool

safeCallReturn(c) ==
  /\ program = "legacy"
  /\ call[c].pc = "inflight"
  /\ up[call[c].ep]
  /\ call' = [call EXCEPT ![c].pc = "returned", ![c].result = call[c].ep]
  /\ UNCHANGED <<program, urlsLength, up, currentIndex, index>>
  /\ UNCHANGED otherThanPool

safeCallCatch(c) ==
  /\ program = "legacy"
  /\ call[c].pc = "inflight"
  /\ ~up[call[c].ep]
  /\ IF SafeMayRetry(call[c].i)
       THEN /\ index' = RotateIndex(index)
            /\ call' = [call EXCEPT ![c].pc = "sleep", ![c].rotations = @ + 1]
       ELSE /\ call' = [call EXCEPT ![c].pc = "thrown"]
            /\ UNCHANGED index
  /\ UNCHANGED <<program, urlsLength, up, currentIndex>>
  /\ UNCHANGED otherThanPool

\* after sleep(200): return this.safeCall(req, attempt + 1)
safeCallRetry(c) ==
  /\ program = "legacy"
  /\ call[c].pc = "sleep"
  /\ call' = IssueOn(c, index, call[c].i + 1)
  /\ UNCHANGED <<program, urlsLength, up, currentIndex, index>>
  /\ UNCHANGED otherThanPool

InitPool ==
  /\ program \in Programs
  /\ urlsLength \in 1..MaxUrls
  /\ up \in [0..(urlsLength - 1) -> BOOLEAN]
  /\ currentIndex = 0
  /\ index = 0
  /\ call = [c \in CallIds |-> IdleCall]
  /\ ChainAtRest /\ ScanAtRest /\ CacheAtRest /\ ReqsAtRest /\ SweepAtRest

NextPool ==
  \E c \in CallIds :
    \/ callWithRetry(c)
    \/ callWithRetryReturn(c)
    \/ callWithRetryCatch(c)
    \/ callWithRetryContinue(c)
    \/ safeCall(c)
    \/ safeCallReturn(c)
    \/ safeCallCatch(c)
    \/ safeCallRetry(c)

SpecPool == InitPool /\ [][NextPool]_vars

\* ---------------------------------------------------------------- C2
Alone(c) == \A d \in CallIds \ {c} : call[d].pc = "idle"

OnlyLastAnswers == \A e \in Endpoints : up[e] <=> (e = urlsLength - 1)

\* C2: a logical call that runs alone fails only after every one of the N
\* endpoints has been attempted for it; and when endpoints 1..N-1 fail and
\* endpoint N answers, the call does not fail and returns endpoint N's result.
C2_FailsOnlyAfterEveryEndpoint ==
  \A c \in CallIds :
    Alone(c) =>
      /\ call[c].pc = "thrown" => Endpoints \subseteq Range(call[c].tried)
      /\ (OnlyLastAnswers /\ call[c].pc \in {"returned", "thrown"}) =>
           (call[c].pc = "returned" /\ call[c].result = urlsLength - 1)

\* ---------------------------------------------------------------- C3
\* C3: under any interleaving of calls sharing the pool (with at least as many
\* endpoints as the retry budget), each logical call attempts each endpoint at
\* most once, performs at most N-1 rotations, and its attempts go through
\* consecutive endpoints: no endpoint retried, none skipped.
C3_EachEndpointAtMostOnce ==
  urlsLength >= Retries =>
    \A c \in CallIds :
      /\ NoDuplicates(call[c].tried)
      /\ call[c].rotations <= urlsLength - 1
      /\ \A k \in 1..(Len(call[c].tried) - 1) :
           call[c].tried[k + 1] = (call[c].tried[k] + 1) % urlsLength

\* ================================================================ cache
TtlMs == CACHE_TTL * 1000

\* `scan-${prover}-${lookback}` / `scan-text-${prover}-${lookback}`
CacheKey(kind, prover, lookback) == <<kind, prover, lookback>>

\* NodeCache keeps an entry while its expiry time t is not below Date.now()
\* (its check is `data.t < Date.now()`); get and set never move t of a kept entry
Live(en, t) == ~(en.t < t)

\* cache.get(key) on cache contents c: whether it finds a value, and the entry
Has(c, key) == \E en \in c : en.key = key /\ Live(en, now)

Entry(c, key) == CHOOSE en \in c : en.key = key /\ Live(en, now)

\* the cache after cache.get(key): an entry found expired is deleted, an entry
\* served keeps its expiry time
AfterGetSliding(c, key) ==
  {en \in c : en.key # key}
    \cup {[en EXCEPT !.t = now + TtlMs] : en \in {x \in c : x.key = key /\ Live(x, now)}}
AfterGet(c, key) == {en \in c : en.key # key \/ Live(en, now)}

CacheHas(key) == Has(cache, key)

CacheGet(key) == Entry(cache, key).val

CacheAfterGetMarksMiss(key) ==
  IF Has(cache, key) THEN AfterGet(cache, key)
  ELSE AfterGet(cache, key)
         \cup {[key |-> key, val |-> [window |-> 0], at |-> now, t |-> now + TtlMs]}
CacheAfterGet(key) == AfterGet(cache, key)

\* cache.set(key, val): stdTTL from now
CacheSet(key, val) ==
  {en \in cache : en.key # key}
    \cup {[key |-> key, val |-> val, at |-> now, t |-> now + TtlMs]}

\* ================================================================ scan
Min(a, b) == IF a < b THEN a ELSE b

Max(a, b) == IF a > b THEN a ELSE b

\* ethers.getAddress: the checksummed spelling of an address
GetAddress(p) == IF p = "0xab" THEN "0xAB" ELSE p

\* a well-formed prover address
TheProver == "0xab"

\* prover arguments of the scans of SpecScan: a well-formed address, a string
\* that is no hex data, hex data that is no 20-byte address
ScanProvers == {TheProver, "0xzz", "0x12"}

\* ethers.zeroPadValue(prover, 32) accepts hex data of up to 32 bytes and
\* throws on anything else
IsBytesLike(p) == p \in {"0xab", "0xAB", "0xcd", "0x12"}

\* ethers.getAddress(prover) throws unless prover is a 20-byte address
IsAddress(p) == p \in {"0xab", "0xAB", "0xcd"}

\* Array.from({length: Math.min(lookback, currentEpoch)}, (_, i) => currentEpoch - i)
Epochs(lookback, currentEpoch) ==
  [i \in 1..Min(lookback, currentEpoch) |-> currentEpoch - (i - 1)]

\* legacy: const start = Math.max(0, currentEpoch - lookback)
LegacyStart(lookback, currentEpoch) == Max(0, currentEpoch - lookback)

\* number of slices epochs.slice(i, i + BATCH_SIZE), i += BATCH_SIZE
BatchCount(n) == (n + batchSize - 1) \div batchSize

\* a slicing that puts the whole window into every batch
WholeWindowPositions(b, n) == 1..n

\* positions (1-based) of the epochs of batch b
BatchPositions(b, n) == (((b - 1) * batchSize) + 1)..Min(b * batchSize, n)

\* r > 0n
Participated(r) == r > 0

\* totalRewards += r
AddRewardCountsOnly(total, r) == total + 1
AddReward(total, r) == total + r

\* lastEpochParticipated ??= epochs[i]
NullishAssignOverwrites(last, e) == e
NullishAssign(last, e) == IF last = Null THEN e ELSE last

\* legacy: if (lastEpochParticipated === null) lastEpochParticipated = e
LegacySetLast(last, e) == IF last = Null THEN e ELSE last

\* one callback of rewards.forEach((r, i) => ...)
Accumulate(acc, r, e) ==
  IF Participated(r)
    THEN [participatedCount |-> acc.participatedCount + 1,
          totalRewards |-> AddReward(acc.totalRewards, r),
          lastEpochParticipated |-> NullishAssign(acc.lastEpochParticipated, e)]
    ELSE acc

RECURSIVE ForEachReward(_, _, _, _)
ForEachReward(rewards, epochs, i, acc) ==
  IF i > Len(rewards)
    THEN acc
    ELSE ForEachReward(rewards, epochs, i + 1, Accumulate(acc, rewards[i], epochs[i]))

\* isActiveNow of the optimized client
IsActiveNow(currentEpoch, last) ==
  last # Null /\ (currentEpoch - last < ActivityThreshold)

\* JavaScript ToNumber of a number-or-null operand: null is 0
ToNumber(x) == IF x = Null THEN 0 ELSE x

\* isActiveNow of the legacy client: currentEpoch - lastEpochParticipated < 6
LegacyIsActiveNow(currentEpoch, last) ==
  currentEpoch - ToNumber(last) < ActivityThreshold

\* the result object of the optimized scanParticipation
ScanResult(s, rewards) ==
  LET acc == ForEachReward(rewards, s.epochs, 1,
               [participatedCount |-> 0, totalRewards |-> 0,
                lastEpochParticipated |-> Null])
  IN [prover |-> GetAddress(s.prover),
      currentEpoch |-> s.currentEpoch,
      lastEpochParticipated |-> acc.lastEpochParticipated,
      participatedCountWindow |-> acc.participatedCount,
      totalRewardsWindow |-> acc.totalRewards,
      isActiveNow |-> IsActiveNow(s.currentEpoch, acc.lastEpochParticipated),
      window |-> s.lookback,
      fetchTime |-> now - s.startTime]

\* the result object of the legacy scanParticipation
LegacyScanResult(s) ==
  [prover |-> GetAddress(s.prover),
   currentEpoch |-> s.currentEpoch,
   lastEpochParticipated |-> s.lastEpochParticipated,
   participatedCountWindow |-> s.participatedCount,
   totalRewardsWindow |-> s.totalRewards,
   isActiveNow |-> LegacyIsActiveNow(s.currentEpoch, s.lastEpochParticipated),
   window |-> s.lookback,
   fetchTime |-> now]

\* the activation threw: its locals are gone
Failed(s) == [IdleScan EXCEPT !.pc = "failed", !.prover = s.prover,
                              !.lookback = s.lookback]

Pending == [kind |-> "pending", v |-> 0]

Hex(v) == [kind |-> "hex", v |-> v]

EmptyHex == [kind |-> "0x", v |-> 0]

\* calls.map(call => this.rpc.callWithRetry(call)...) for the epochs of batch b
IssueBatch(s, b) ==
  [s EXCEPT !.pc = "batch", !.b = b,
            !.raw = [k \in BatchPositions(b, Len(s.epochs)) |-> Pending]]

BatchEpochs(s, b) ==
  [j \in 1..Cardinality(BatchPositions(b, Len(s.epochs))) |->
     s.epochs[((b - 1) * batchSize) + j]]

\* the batch is mapped to its calls and these are issued; building a call
\* throws when zeroPadValue rejects the prover
Issue(s, b) ==
  IF IsBytesLike(s.prover)
    THEN /\ scan' = IssueBatch(s, b)
         /\ queryLog' = queryLog \o BatchEpochs(s, b)
    ELSE /\ scan' = Failed(s)
         /\ UNCHANGED queryLog

\* the tail of scanParticipation: aggregate, build the result (getAddress
\* throws on a malformed prover), cache.set, return
Finish(s, rewards) ==
  IF IsAddress(s.prover)
    THEN LET result == ScanResult(s, rewards)
         IN /\ scan' = [IdleScan EXCEPT !.pc = "done", !.prover = s.prover,
                                         !.lookback = s.lookback, !.result = result]
            /\ cache' = CacheSet(CacheKey("scan", s.prover, s.lookback), result)
            /\ lastStore' = [at |-> now, val |-> result]
    ELSE /\ scan' = Failed(s)
         /\ UNCHANGED <<cache, lastStore>>

\* scanParticipation(prover, lookback): cache lookup, then getCurrentEpoch()
scanParticipation(prover, lookback) ==
  /\ program = "optimized"
  /\ scan.pc = "idle"
  /\ LET key == CacheKey("scan", prover, lookback)
     IN IF CacheHas(key)
          THEN /\ scan' = [IdleScan EXCEPT !.pc = "done", !.prover = prover,
                                           !.lookback = lookback, !.hit = TRUE,
                                           !.result = CacheGet(key)]
          ELSE /\ scan' = [IdleScan EXCEPT !.pc = "epoch", !.prover = prover,
                                           !.lookback = lookback, !.startTime = now]
  /\ cache' = CacheAfterGet(CacheKey("scan", prover, lookback))
  /\ UNCHANGED <<otherThanScan, batchSize, queryLog, obtained, now, lastStore>>

\* getCurrentEpoch() throws: the pool is exhausted, or the answer is no integer
getCurrentEpochThrow ==
  /\ program = "optimized"
  /\ scan.pc = "epoch"
  /\ scan' = Failed(scan)
  /\ UNCHANGED <<otherThanScan, batchSize, queryLog, obtained, cacheVars>>

\* getCurrentEpoch() returns; the window is built and getBatchRewards starts
getCurrentEpochReturn ==
  /\ program = "optimized"
  /\ scan.pc = "epoch"
  /\ LET s == [scan EXCEPT !.currentEpoch = chainEpoch,
                           !.epochs = Epochs(scan.lookback, chainEpoch)]
         n == Len(s.epochs)
     IN IF n = 0
          THEN /\ Finish(s, <<>>)
               /\ UNCHANGED queryLog
          ELSE IF BatchCount(n) > 1
            THEN /\ scan' = [s EXCEPT !.pc = "building", !.sleeps = BatchCount(n) - 1]
                 /\ UNCHANGED <<queryLog, cache, lastStore>>
            ELSE /\ Issue(s, 1)
                 /\ UNCHANGED <<cache, lastStore>>
  /\ UNCHANGED <<otherThanScan, batchSize, obtained, now>>

\* one `await sleep(EPOCH_DELAY)` of the loop that slices the batches; after
\* the last one the first batch is issued
getBatchRewardsSleep ==
  /\ program = "optimized"
  /\ scan.pc = "building"
  /\ IF scan.sleeps > 1
       THEN /\ scan' = [scan EXCEPT !.sleeps = @ - 1]
            /\ UNCHANGED queryLog
       ELSE Issue([scan EXCEPT !.sleeps = 0], 1)
  /\ UNCHANGED <<otherThanScan, batchSize, obtained, cacheVars>>

InFlight(k) == scan.pc = "batch" /\ k \in DOMAIN scan.raw /\ scan.raw[k].kind = "pending"

\* a reward query returns the ledger's value
rewardQueryReturn(k) ==
  /\ program = "optimized"
  /\ InFlight(k)
  /\ scan' = [scan EXCEPT !.raw[k] = Hex(reward[scan.epochs[k]])]
  /\ obtained' = obtained \cup {[q |-> k, epoch |-> scan.epochs[k], r |-> reward[scan.epochs[k]]]}
  /\ UNCHANGED <<otherThanScan, batchSize, queryLog, cacheVars>>

\* a reward query fails in callWithRetry: .catch(() => "0x0")
rewardQueryCatch(k) ==
  /\ program = "optimized"
  /\ InFlight(k)
  /\ scan' = [scan EXCEPT !.raw[k] = Hex(0)]
  /\ obtained' = obtained \cup {[q |-> k, epoch |-> scan.epochs[k], r |-> 0]}
  /\ UNCHANGED <<otherThanScan, batchSize, queryLog, cacheVars>>

\* a reward query returns the empty hex string "0x"
rewardQueryEmpty(k) ==
  /\ program = "optimized"
  /\ InFlight(k)
  /\ scan' = [scan EXCEPT !.raw[k] = EmptyHex]
  /\ UNCHANGED <<otherThanScan, batchSize, queryLog, obtained, cacheVars>>

\* Promise.all resolved: results.push(...batchResults.map(r => BigInt(r || "0x0")));
\* BigInt("0x") throws; otherwise the next batch is issued or the scan finishes
getBatchRewardsCollect ==
  /\ program = "optimized"
  /\ scan.pc = "batch"
  /\ \A k \in DOMAIN scan.raw : scan.raw[k].kind # "pending"
  /\ LET n == Len(scan.epochs)
         decoded == [j \in 1..Cardinality(DOMAIN scan.raw) |->
                       scan.raw[((scan.b - 1) * batchSize) + j].v]
         results == scan.results \o decoded
     IN IF \E k \in DOMAIN scan.raw : scan.raw[k].kind = "0x"
          THEN /\ scan' = Failed(scan)
               /\ UNCHANGED <<queryLog, cache, lastStore>>
          ELSE IF scan.b < BatchCount(n)
            THEN /\ Issue([scan EXCEPT !.results = results], scan.b + 1)
                 /\ UNCHANGED <<cache, lastStore>>
            ELSE /\ Finish(scan, results)
                 /\ UNCHANGED queryLog
  /\ UNCHANGED <<otherThanScan, batchSize, obtained, now>>

\* ---------------------------------------------------------- legacy scan
\* legacy scanParticipation(prover, lookback, delayMs): getCurrentEpoch() first
legacyScanParticipation(prover, lookback) ==
  /\ program = "legacy"
  /\ scan.pc = "idle"
  /\ scan' = [IdleScan EXCEPT !.pc = "epoch", !.prover = prover,
                              !.lookback = lookback]
  /\ UNCHANGED <<otherThanScan, batchSize, queryLog, obtained, cacheVars>>

legacyGetCurrentEpochThrow ==
  /\ program = "legacy"
  /\ scan.pc = "epoch"
  /\ scan' = Failed(scan)
  /\ UNCHANGED <<otherThanScan, batchSize, queryLog, obtained, cacheVars>>

\* the loop starts at e = currentEpoch, which is never below start;
\* getRewardForEpoch throws before calling when zeroPadValue rejects the prover
legacyGetCurrentEpochReturn ==
  /\ program = "legacy"
  /\ scan.pc = "epoch"
  /\ IF IsBytesLike(scan.prover)
       THEN /\ scan' = [scan EXCEPT !.pc = "reward", !.currentEpoch = chainEpoch,
                                    !.e = chainEpoch]
            /\ queryLog' = Append(queryLog, chainEpoch)
       ELSE /\ scan' = Failed(scan)
            /\ UNCHANGED queryLog
  /\ UNCHANGED <<otherThanScan, batchSize, obtained, cacheVars>>

\* the loop body after getRewardForEpoch(e, prover) gave r
LegacyBody(s, r) ==
  IF Participated(r)
    THEN [s EXCEPT !.pc = "delay",
                   !.participatedCount = @ + 1,
                   !.totalRewards = AddReward(@, r),
                   !.lastEpochParticipated = LegacySetLast(@, s.e)]
    ELSE [s EXCEPT !.pc = "delay"]

\* getRewardForEpoch returns the ledger's value
legacyRewardReturn ==
  /\ program = "legacy"
  /\ scan.pc = "reward"
  /\ scan' = LegacyBody(scan, reward[scan.e])
  /\ obtained' = obtained \cup {[q |-> Len(queryLog), epoch |-> scan.e, r |-> reward[scan.e]]}
  /\ UNCHANGED <<otherThanScan, batchSize, queryLog, cacheVars>>

\* getRewardForEpoch throws (pool exhausted, or BigInt("0x")): the scan throws
legacyRewardThrow ==
  /\ program = "legacy"
  /\ scan.pc = "reward"
  /\ scan' = Failed(scan)
  /\ UNCHANGED <<otherThanScan, batchSize, queryLog, obtained, cacheVars>>

\* after sleep(delayMs): e--, then the next query or the result
legacyDelayDone ==
  /\ program = "legacy"
  /\ scan.pc = "delay"
  /\ IF scan.e - 1 >= LegacyStart(scan.lookback, scan.currentEpoch)
       THEN /\ scan' = [scan EXCEPT !.pc = "reward", !.e = @ - 1]
            /\ queryLog' = Append(queryLog, scan.e - 1)
       ELSE /\ scan' = IF IsAddress(scan.prover)
                             THEN [IdleScan EXCEPT !.pc = "done",
                                                   !.prover = scan.prover,
                                                   !.lookback = scan.lookback,
                                                   !.result = LegacyScanResult(scan)]
                             ELSE Failed(scan)
            /\ UNCHANGED queryLog
  /\ UNCHANGED <<otherThanScan, batchSize, obtained, cacheVars>>

\* the cache after an earlier scan of lookback 1 whose queries all answered
PriorScanCache ==
  LET s == [IdleScan EXCEPT !.prover = TheProver, !.lookback = 1,
                            !.currentEpoch = chainEpoch,
                            !.epochs = Epochs(1, chainEpoch)]
      rewards == [i \in 1..Len(s.epochs) |-> reward[s.epochs[i]]]
  IN {[key |-> CacheKey("scan", TheProver, 1), val |-> ScanResult(s, rewards),
       at |-> 0, t |-> TtlMs]}

InitScan ==
  /\ program \in Programs
  /\ PoolAtRest
  /\ chainEpoch \in 0..MaxEpoch
  /\ reward \in [0..chainEpoch -> 0..MaxReward]
  /\ shares = 0
  /\ batchSize \in (IF program = "optimized" THEN 1..MaxBatchSize ELSE {1})
  /\ scan = IdleScan
  /\ queryLog = <<>>
  /\ obtained = {}
  /\ now = 0
  /\ cache \in (IF program = "optimized" THEN {{}, PriorScanCache} ELSE {{}})
  /\ lastStore = (IF cache = {} THEN NoStore
                  ELSE [at |-> 0, val |-> (CHOOSE en \in cache : TRUE).val])
  /\ ReqsAtRest
  /\ SweepAtRest

NextScan ==
  \/ \E prover \in ScanProvers, lookback \in 1..MaxLookback :
       scanParticipation(prover, lookback)
  \/ getCurrentEpochThrow
  \/ getCurrentEpochReturn
  \/ getBatchRewardsSleep
  \/ \E k \in 1..MaxLookback : rewardQueryReturn(k)
  \/ \E k \in 1..MaxLookback : rewardQueryCatch(k)
  \/ \E k \in 1..MaxLookback : rewardQueryEmpty(k)
  \/ getBatchRewardsCollect
  \/ \E prover \in ScanProvers, lookback \in 1..MaxLookback :
       legacyScanParticipation(prover, lookback)
  \/ legacyGetCurrentEpochThrow
  \/ legacyGetCurrentEpochReturn
  \/ legacyRewardReturn
  \/ legacyRewardThrow
  \/ legacyDelayDone

SpecScan == InitScan /\ [][NextScan]_vars

Spec == SpecScan

\* ------------------------------------------------------- scan claims
\* a fresh (cache-miss) scan that returned its result
FreshDone == scan.pc = "done" /\ ~scan.hit

\* the window the specification prescribes: max(0, E-L+1) .. E
PrescribedWindow(lookback, currentEpoch) ==
  Max(0, currentEpoch - lookback + 1)..currentEpoch

\* C1: a scan run on a cache miss issues a reward query for exactly the epochs
\* max(0, E-L+1) .. E, each exactly once, whatever the batch size.
C1_ScansPrescribedWindow ==
  FreshDone =>
    /\ Range(queryLog) = PrescribedWindow(scan.lookback, scan.result.currentEpoch)
    /\ NoDuplicates(queryLog)

\* C6: in every ScanResult, isActiveNow is true iff lastEpochParticipated is
\* present and currentEpoch - lastEpochParticipated < 6.
C6_IsActiveNowIffRecent ==
  scan.pc = "done" =>
    (scan.result.isActiveNow <=>
       (/\ scan.result.lastEpochParticipated # Null
        /\ scan.result.currentEpoch - scan.result.lastEpochParticipated
             < ActivityThreshold))

\* the queried epochs whose query contributed a nonzero reward
NonzeroEpochs == {o.epoch : o \in {x \in obtained : x.r > 0}}

\* every issued query settled once, for the epoch it was issued for
ObtainedMatchesLog ==
  /\ {o.q : o \in obtained} = 1..Len(queryLog)
  /\ Cardinality(obtained) = Len(queryLog)
  /\ \A o \in obtained : o.epoch = queryLog[o.q]

\* C7: in every ScanResult, lastEpochParticipated is the largest queried epoch
\* whose reward is nonzero, null exactly when no queried epoch has a nonzero
\* reward, and when present it is <= currentEpoch.
C7_LastEpochIsMaxNonzero ==
  FreshDone =>
    LET last == scan.result.lastEpochParticipated
    IN /\ ObtainedMatchesLog
       /\ (last = Null) <=> (NonzeroEpochs = {})
       /\ last # Null =>
            /\ last \in NonzeroEpochs
            /\ \A e \in NonzeroEpochs : e <= last
            /\ last <= scan.result.currentEpoch

C7_Witness ==
  /\ FreshDone
  /\ Cardinality(NonzeroEpochs) >= 2
  /\ scan.result.lastEpochParticipated # Null
  /\ \E o \in obtained : o.r = 0

RECURSIVE SumRewards(_)
SumRewards(S) ==
  IF S = {} THEN 0
  ELSE LET o == CHOOSE x \in S : TRUE IN o.r + SumRewards(S \ {o})

\* C8: in every ScanResult, totalRewardsWindow is the sum of the per-epoch
\* rewards over the scanned epochs and participatedCountWindow is the number of
\* scanned epochs whose reward is nonzero.
C8_TotalsMatchScannedEpochs ==
  FreshDone =>
    /\ ObtainedMatchesLog
    /\ scan.result.totalRewardsWindow = SumRewards(obtained)
    /\ scan.result.participatedCountWindow = Cardinality({o \in obtained : o.r > 0})

C8_Witness ==
  /\ FreshDone
  /\ scan.result.participatedCountWindow = 2
  /\ scan.result.totalRewardsWindow > 2
  /\ Len(queryLog) > 2

\* ============================================================ handlers
ReqIds == 1..MaxReqs

IdleReq ==
  [pc |-> "idle", kind |-> "", prover |-> "", lookback |-> 0, epochHours |-> 0,
   issuedAt |-> 0, prevStore |-> NoStore, scanCalled |-> FALSE, hit |-> FALSE,
   entryAt |-> Null, traversed |-> FALSE, calls |-> 0, startTime |-> 0,
   stats |-> [window |-> 0], status |-> 0, before |-> Null]

\* formatProverMessage(stats, {epochHours, shares}): the figures the report prints
FormatProverMessage(stats, epochHours, sh) ==
  LET idleEpochs == IF stats.lastEpochParticipated = Null THEN Null
                    ELSE stats.currentEpoch - stats.lastEpochParticipated
      idleHours == IF idleEpochs = Null THEN Null ELSE idleEpochs * epochHours
  IN [active |-> stats.isActiveNow,
      prover |-> stats.prover,
      currentEpoch |-> stats.currentEpoch,
      lastEpochParticipated |-> stats.lastEpochParticipated,
      window |-> stats.window,
      shares |-> sh,
      participated |-> stats.participatedCountWindow,
      rewards |-> stats.totalRewardsWindow,
      idleHours |-> idleHours,
      idleEpochs |-> idleEpochs]

\* the response is sent with this status: the handler's locals are gone.
\* `before` remembers the store time of the entry the scan was served from
Answered(rq, status) ==
  [IdleReq EXCEPT !.pc = "done", !.kind = rq.kind, !.status = status,
                  !.before = IF rq.hit THEN rq.entryAt ELSE Null]

\* the handler calls client.scanParticipation(prover, lookback) on cache
\* contents c: a hit returns the cached object and the handler goes on to the
\* shares call; a miss starts the traversal
CallScanParticipation(r, rq, c) ==
  LET key == CacheKey("scan", rq.prover, rq.lookback)
      called == [rq EXCEPT !.scanCalled = TRUE]
  IN /\ IF Has(c, key)
          THEN req' = [req EXCEPT ![r] =
                  [called EXCEPT !.pc = "shares", !.hit = TRUE,
                                 !.entryAt = Entry(c, key).at,
                                 !.stats = Entry(c, key).val,
                                 !.calls = @ + 1]]
          ELSE req' = [req EXCEPT ![r] =
                  [called EXCEPT !.pc = "traversing", !.startTime = now]]
     /\ cache' = AfterGet(c, key)

NewReq(r, kind) ==
  [IdleReq EXCEPT !.kind = kind, !.before = req[r].before, !.prover = TheProver, !.lookback = DefaultLookback,
                  !.epochHours = DefaultEpochHours, !.issuedAt = now,
                  !.prevStore = lastStore]

\* a request is served in the lowest slot that holds none
Free(r) ==
  /\ req[r].pc \in {"idle", "done"}
  /\ \A q \in ReqIds : q < r => req[q].pc \notin {"idle", "done"}

\* GET /scan
getScan(r) ==
  /\ Free(r)
  /\ CallScanParticipation(r, NewReq(r, "/scan"), cache)
  /\ UNCHANGED <<program, poolVars, chainVars, scanVars, sweepVars, now, lastStore>>

\* GET /scan-text?epochHours=...: the text cache is consulted first
getScanTextWith(r, epochHours) ==
  /\ Free(r)
  /\ LET rq == [NewReq(r, "/scan-text") EXCEPT !.epochHours = epochHours]
         key == CacheKey("scan-text", rq.prover, rq.lookback)
     IN IF Has(cache, key)
          THEN /\ req' = [req EXCEPT ![r] =
                    Answered(rq, 200)]
               /\ cache' = AfterGet(cache, key)
          ELSE CallScanParticipation(r, rq, AfterGet(cache, key))
  /\ UNCHANGED <<program, poolVars, chainVars, scanVars, sweepVars, now, lastStore>>

\* GET /scan-text with no epochHours in the query: epochHours = 5
getScanText(r) == getScanTextWith(r, DefaultEpochHours)

\* the traversal throws (getCurrentEpoch fails, or a reward answer is "0x"):
\* the handler's catch answers 500
traversalThrow(r) ==
  /\ req[r].pc = "traversing"
  /\ req' = [req EXCEPT ![r] = Answered(req[r], 500)]
  /\ UNCHANGED <<program, poolVars, chainVars, scanVars, sweepVars, cacheVars>>

\* the traversal completes, the queries at positions F having failed (each
\* counts zero): result, cache.set, return; the handler issues the shares call
traversalReturn(r, F) ==
  /\ req[r].pc = "traversing"
  /\ LET epochs == Epochs(req[r].lookback, chainEpoch)
         s == [IdleScan EXCEPT !.prover = req[r].prover,
                               !.lookback = req[r].lookback,
                               !.startTime = req[r].startTime,
                               !.currentEpoch = chainEpoch, !.epochs = epochs]
         rewards == [i \in 1..Len(epochs) |->
                       IF i \in F THEN 0 ELSE reward[epochs[i]]]
         result == ScanResult(s, rewards)
     IN /\ F \subseteq 1..Len(epochs)
        /\ req' = [req EXCEPT ![r].pc = "shares", ![r].traversed = TRUE,
                              ![r].stats = result,
                              ![r].calls = @ + 1 + Len(epochs) + 1]
        /\ cache' = CacheSet(CacheKey("scan", req[r].prover, req[r].lookback), result)
        /\ lastStore' = [at |-> now, val |-> result]
  /\ UNCHANGED <<program, poolVars, chainVars, scanVars, sweepVars, now>>

\* the handler's tail once shares is known (sh = Null: the call failed).
\* /scan: res.json of a payload holding the BigInt totalRewardsWindow throws
\* in JSON.stringify, and the catch answers 500.  /scan-text: the report is
\* formatted, cached and sent
Respond(r, sh) ==
  IF req[r].kind = "/scan"
    THEN /\ req' = [req EXCEPT ![r] = Answered(req[r], 500)]
         /\ UNCHANGED cache
    ELSE LET text == FormatProverMessage(req[r].stats, req[r].epochHours, sh)
         IN /\ req' = [req EXCEPT ![r] = Answered(req[r], 200)]
            /\ cache' = CacheSet(CacheKey("scan-text", req[r].prover,
                                          req[r].lookback), text)

\* the shares call returns
sharesReturn(r) ==
  /\ req[r].pc = "shares"
  /\ Respond(r, shares)
  /\ UNCHANGED <<program, poolVars, chainVars, scanVars, sweepVars, now, lastStore>>

\* the shares call fails: .catch(() => null)
sharesCatch(r) ==
  /\ req[r].pc = "shares"
  /\ Respond(r, Null)
  /\ UNCHANGED <<program, poolVars, chainVars, scanVars, sweepVars, now, lastStore>>

\* time passes; the instants around one TTL after the first store are the
\* ones at which requests arrive
Instants == {t \in {TtlMs - 1, TtlMs, TtlMs + 1} : t <= MaxTime}

Tick(t) ==
  /\ now < t
  /\ t <= MaxTime
  /\ now' = t
  /\ UNCHANGED <<program, poolVars, chainVars, scanVars, sweepVars, cache, lastStore, req>>

\* ledgers with a reward in the latest epoch only, or in none
RewardProfiles ==
  {[e \in 0..MaxEpoch |-> IF e = k THEN MaxReward ELSE 0] :
     k \in {MaxEpoch, MaxEpoch + 1}}

InitCache ==
  /\ program = "optimized"
  /\ PoolAtRest
  /\ chainEpoch = MaxEpoch
  /\ reward \in RewardProfiles
  /\ shares \in {0, MaxShares}
  /\ ScanAtRest
  /\ CacheAtRest
  /\ req = [r \in ReqIds |-> IdleReq]
  /\ SweepAtRest

NextCache ==
  \/ \E r \in ReqIds : getScan(r)
  \/ \E r \in ReqIds : getScanText(r)
  \/ \E r \in ReqIds : traversalThrow(r)
  \/ \E r \in ReqIds : \E F \in SUBSET (1..MaxEpoch) : traversalReturn(r, F)
  \/ \E r \in ReqIds : sharesReturn(r)
  \/ \E r \in ReqIds : sharesCatch(r)
  \/ \E t \in Instants : Tick(t)

SpecCache == InitCache /\ [][NextCache]_vars

\* ---------------------------------------------------------------- C9
\* C9: when the scan of a request is served from the cache, no chain call at
\* all is issued on behalf of that request, neither by scanParticipation nor
\* by the /scan and /scan-text handlers around it.
C9_CacheHitIssuesNoChainCall ==
  \A r \in ReqIds : req[r].hit => req[r].calls = 0

\* --------------------------------------------------------------- C10
Scanned(r) == req[r].scanCalled

ChatIds == 1..MaxChats

SweepIds == 1..MaxSweeps

\* the epoch the chain is at when the server starts, and the last one it reaches
FirstEpoch == AlertThreshold

LastEpoch == FirstEpoch + MaxAdvance

NoEntry == [chatId |-> 0, prover |-> "", lastNotifiedEpoch |-> Null]

\* a checkWatchlist activation that is not running
IdleSweep == [pc |-> "idle", currentEpoch |-> Null, next |-> 0, entry |-> NoEntry]

Watching(w, chatId) == \E i \in 1..Len(w) : w[i].chatId = chatId

\* Map.set: an existing key keeps its place, a new key goes last
MapSet(w, chatId, val) ==
  LET e == [chatId |-> chatId, prover |-> val.prover,
            lastNotifiedEpoch |-> val.lastNotifiedEpoch]
  IN IF Watching(w, chatId)
       THEN [i \in 1..Len(w) |-> IF w[i].chatId = chatId THEN e ELSE w[i]]
       ELSE Append(w, e)

MapDelete(w, chatId) == SelectSeq(w, LAMBDA x : x.chatId # chatId)

PositionOf(w, chatId) == CHOOSE i \in 1..Len(w) : w[i].chatId = chatId

\* idleEpochs of checkWatchlist, and its condition for alerting
IdleEpochs(currentEpoch, stats) ==
  IF stats.lastEpochParticipated = Null THEN currentEpoch
  ELSE currentEpoch - stats.lastEpochParticipated

Alerting(sw, stats) ==
  /\ IdleEpochs(sw.currentEpoch, stats) >= AlertThreshold
  /\ sw.entry.lastNotifiedEpoch # sw.currentEpoch

\* the body of the loop once stats is known: the alert is logged and the
\* entry the iteration captured is written back with lastNotifiedEpoch set
Evaluate(sw, stats) ==
  IF Alerting(sw, stats)
    THEN LET a == [chatId |-> sw.entry.chatId, epoch |-> sw.currentEpoch]
         IN /\ watchlist' = MapSet(watchlist, sw.entry.chatId,
                                   [sw.entry EXCEPT !.lastNotifiedEpoch = sw.currentEpoch])
            /\ alerts' = alerts \cup {a}
            /\ repeats' = IF a \in alerts THEN repeats \cup {a} ELSE repeats
    ELSE UNCHANGED <<watchlist, alerts, repeats>>

\* the head of `for (const [chatId, entry] of watchlist.entries())`: the
\* iterator is live, it ends when no entry is left at its position; otherwise
\* the entry is captured and scanParticipation(entry.prover, 600) is called,
\* which answers from the cache or starts a traversal
LoopHead(s, sw) ==
  IF sw.next > Len(watchlist)
    THEN /\ sweep' = [sweep EXCEPT ![s] = IdleSweep]
         /\ UNCHANGED <<watchlist, alerts, repeats, cache>>
    ELSE LET entry == watchlist[sw.next]
             at == [sw EXCEPT !.entry = entry, !.next = @ + 1]
             key == CacheKey("scan", entry.prover, DefaultLookback)
         IN /\ cache' = AfterGet(cache, key)
            /\ IF Has(cache, key)
                 THEN /\ sweep' = [sweep EXCEPT ![s] = [at EXCEPT !.pc = "sleep"]]
                      /\ Evaluate(at, Entry(cache, key).val)
                 ELSE /\ sweep' = [sweep EXCEPT ![s] = [at EXCEPT !.pc = "scan"]]
                      /\ UNCHANGED <<watchlist, alerts, repeats>>

\* the timer fires (setInterval), or the server starts: checkWatchlist is
\* called whether or not an earlier activation is still running.  With an
\* empty watchlist it returns at once, as the initial check always does
checkWatchlist(s) ==
  /\ sweep[s].pc = "idle"
  /\ \A q \in SweepIds : q < s => sweep[q].pc # "idle"
  /\ IF Len(watchlist) = 0
       THEN UNCHANGED sweep
       ELSE sweep' = [sweep EXCEPT ![s].pc = "epoch"]
  /\ UNCHANGED <<program, poolVars, chainVars, scanVars, cacheVars, req,
                 watchlist, alerts, repeats>>

\* await client.getCurrentEpoch() returns: the loop starts
checkWatchlistEpochReturn(s) ==
  /\ sweep[s].pc = "epoch"
  /\ LoopHead(s, [sweep[s] EXCEPT !.currentEpoch = chainEpoch, !.next = 1])
  /\ UNCHANGED <<program, poolVars, chainVars, scanVars, now, lastStore, req>>

\* await client.getCurrentEpoch() throws, outside the try: the promise of
\* this activation is rejected, and neither the timer callback nor the
\* initial call attaches a handler to it
checkWatchlistEpochThrow(s) ==
  /\ sweep[s].pc = "epoch"
  /\ sweep' = [sweep EXCEPT ![s] = [IdleSweep EXCEPT !.pc = "rejected"]]
  /\ UNCHANGED <<program, poolVars, chainVars, scanVars, cacheVars, req,
                 watchlist, alerts, repeats>>

\* what the runtime does with a rejection nobody handles
RejectionModes == {"warn", "throw"}

\* the runtime's 'unhandledRejection' step: it prints a warning and the
\* process goes on, or (the default of current runtimes) it raises an
\* uncaught exception and the process exits with every activation in it
unhandledRejection(s) ==
  /\ sweep[s].pc = "rejected"
  /\ \E mode \in RejectionModes :
       IF mode = "warn"
         THEN sweep' = [sweep EXCEPT ![s] = IdleSweep]
         ELSE sweep' = [q \in SweepIds |-> [IdleSweep EXCEPT !.pc = "exited"]]
  /\ UNCHANGED <<program, poolVars, chainVars, scanVars, cacheVars, req,
                 watchlist, alerts, repeats>>

\* the server process is alive
ProcessRunning == \A s \in SweepIds : sweep[s].pc # "exited"

\* the traversal started for the captured entry completes: result, cache.set,
\* return; the loop body goes on
checkWatchlistScanReturn(s) ==
  /\ sweep[s].pc = "scan"
  /\ LET prover == sweep[s].entry.prover
         epochs == Epochs(DefaultLookback, chainEpoch)
         sc == [IdleScan EXCEPT !.prover = prover, !.lookback = DefaultLookback,
                                !.startTime = now, !.currentEpoch = chainEpoch,
                                !.epochs = epochs]
         result == ScanResult(sc, [i \in 1..Len(epochs) |-> reward[epochs[i]]])
     IN /\ cache' = CacheSet(CacheKey("scan", prover, DefaultLookback), result)
        /\ lastStore' = [at |-> now, val |-> result]
        /\ Evaluate(sweep[s], result)
  /\ sweep' = [sweep EXCEPT ![s].pc = "sleep"]
  /\ UNCHANGED <<program, poolVars, chainVars, scanVars, now, req>>

\* the traversal throws: catch (err) logs it
checkWatchlistScanThrow(s) ==
  /\ sweep[s].pc = "scan"
  /\ sweep' = [sweep EXCEPT ![s].pc = "sleep"]
  /\ UNCHANGED <<program, poolVars, chainVars, scanVars, cacheVars, req,
                 watchlist, alerts, repeats>>

\* await sleep(1000) is over: next iteration
checkWatchlistSleepDone(s) ==
  /\ sweep[s].pc = "sleep"
  /\ LoopHead(s, sweep[s])
  /\ UNCHANGED <<program, poolVars, chainVars, scanVars, now, lastStore, req>>

\* POST /watchlist/add: a fresh entry for the chat, never notified
watchlistAdd(chatId, prover) ==
  /\ ProcessRunning
  /\ watchlist' = MapSet(watchlist, chatId,
                         [prover |-> GetAddress(prover), lastNotifiedEpoch |-> Null])
  /\ alerts' = {a \in alerts : a.chatId # chatId}
  /\ repeats' = {a \in repeats : a.chatId # chatId}
  /\ UNCHANGED <<program, poolVars, chainVars, scanVars, cacheVars, req, sweep>>

\* POST /watchlist/remove: a running iterator past the deleted entry moves
\* back with the entries that follow it
watchlistRemove(chatId) ==
  /\ ProcessRunning
  /\ Watching(watchlist, chatId)
  /\ watchlist' = MapDelete(watchlist, chatId)
  /\ sweep' = [s \in SweepIds |->
                 IF sweep[s].pc \in {"scan", "sleep"}
                    /\ PositionOf(watchlist, chatId) < sweep[s].next
                   THEN [sweep[s] EXCEPT !.next = @ - 1]
                   ELSE sweep[s]]
  /\ UNCHANGED <<program, poolVars, chainVars, scanVars, cacheVars, req,
                 alerts, repeats>>

\* the chain moves on to the next epoch
AdvanceEpoch ==
  /\ chainEpoch < LastEpoch
  /\ chainEpoch' = chainEpoch + 1
  /\ UNCHANGED <<program, poolVars, reward, shares, scanVars, cacheVars, req,
                 sweepVars>>

\* ledgers of the watched prover: no reward at all, a reward in epoch 1 only,
\* a reward in the epoch after the first only
SweepLedgers ==
  {[e \in 0..LastEpoch |-> IF e = k THEN MaxReward ELSE 0] :
     k \in {Null, 1, FirstEpoch + 1}}

InitSweep ==
  /\ program = "optimized"
  /\ PoolAtRest
  /\ chainEpoch = FirstEpoch
  /\ reward \in SweepLedgers
  /\ shares = 0
  /\ ScanAtRest
  /\ CacheAtRest
  /\ ReqsAtRest
  /\ watchlist = <<>>
  /\ sweep = [s \in SweepIds |-> IdleSweep]
  /\ alerts = {}
  /\ repeats = {}

\* the provers subscribers ask to watch
SweepProvers == {TheProver, "0xcd"}

NextSweep ==
  \/ \E s \in SweepIds : checkWatchlist(s)
  \/ \E s \in SweepIds : checkWatchlistEpochReturn(s)
  \/ \E s \in SweepIds : checkWatchlistEpochThrow(s)
  \/ \E s \in SweepIds : unhandledRejection(s)
  \/ \E s \in SweepIds : checkWatchlistScanReturn(s)
  \/ \E s \in SweepIds : checkWatchlistScanThrow(s)
  \/ \E s \in SweepIds : checkWatchlistSleepDone(s)
  \/ \E c \in ChatIds, prover \in SweepProvers : watchlistAdd(c, prover)
  \/ \E c \in ChatIds : watchlistRemove(c)
  \/ AdvanceEpoch
  \/ \E t \in Instants : Tick(t)

SpecSweep == InitSweep /\ [][NextSweep]_vars

\* ---------------------------------------------------------------- C4
\* C4: a watch entry receives at most one alert per value of currentEpoch:
\* after an alert at epoch e, no sweep that observes currentEpoch = e alerts
\* for that entry again.
C4_AtMostOneAlertPerEpoch == repeats = {}

\* ---------------------------------------------------------------- C5
\* C5: sweeps never overlap: at no time are two executions of checkWatchlist
\* in progress at once.
C5_SweepsNeverOverlap ==
  Cardinality({s \in SweepIds : sweep[s].pc \in {"epoch", "scan", "sleep"}}) <= 1

\* =============================================== scan: failure and pacing
\* the cache key of the activation under observation
ScanKey == CacheKey("scan", scan.prover, scan.lookback)

\* --------------------------------------------------------------- C11
\* C11: a scan that fails (raises to its caller) leaves the cache unchanged
\* for its key: the key it missed on holds no entry afterwards.  A cache miss
\* leads to exactly one scan attempt: getCurrentEpoch is called once, when the
\* miss is found, and the window is passed over once.
C11_FailedScanNotCachedOneAttempt ==
  /\ [](scan.pc = "failed" => ~Has(cache, ScanKey))
  /\ [](NoDuplicates(queryLog))
  /\ [][scan'.pc = "epoch" => scan.pc \in {"idle", "epoch"}]_vars

\* a scan failed after its pass over the window had begun, next to an entry
\* cached under another key
C11_Witness ==
  /\ scan.pc = "failed"
  /\ Len(queryLog) > 1
  /\ cache # {}

\* --------------------------------------------------------------- C12
\* C12: within a scan, a reward query that fails once the endpoint pool is
\* exhausted contributes a reward of zero for its epoch and never aborts the
\* scan.
C12_FailedQueryCountsZero ==
  [][((\E k \in 1..MaxLookback : rewardQueryCatch(k)) \/ legacyRewardThrow) =>
       /\ scan'.pc # "failed"
       /\ \E o \in obtained' \ obtained : o.r = 0]_vars

\* ================================================================= bot
\* In SpecBot `watchlist` is the bot's Map chatId -> Set of addresses, laid
\* out as the sequence of [chatId, prover] pairs in the order the nested
\* for-of loops of monitorOnce meet them; `sweep` holds the monitorOnce
\* activations, `alerts` the messages sent: [chatId, prover, epoch, kind].
\* An activation's `unchecked` is history: the pairs watched ever since it
\* started that it has not taken up yet; `failedOn`: the pairs whose scan or
\* status fetch failed in it; `sent`: the message its latest check sent.
BotProvers == {"0xab", "0xcd"}

Pair(chatId, prover) == [chatId |-> chatId, prover |-> prover]

NoMessage == [chatId |-> 0, prover |-> "", epoch |-> Null, kind |-> ""]

BotIdle ==
  [pc |-> "idle", currentEpoch |-> Null, next |-> 0, entry |-> Pair(0, ""),
   sent |-> NoMessage, unchecked |-> {}, failedOn |-> {}]

BotRunning(s) == sweep[s].pc \notin {"idle", "done"}

\* monitorOnce has returned: its locals are gone
BotDone(sw) ==
  [BotIdle EXCEPT !.pc = "done", !.unchecked = sw.unchecked,
                  !.failedOn = sw.failedOn]

\* position of the last pair of a chat, 0 when the chat has none
LastOf(w, chatId) ==
  IF \E i \in 1..Len(w) : w[i].chatId = chatId
    THEN CHOOSE i \in 1..Len(w) :
           /\ w[i].chatId = chatId
           /\ \A j \in 1..Len(w) : w[j].chatId = chatId => j <= i
    ELSE 0

InsertAfter(w, i, x) ==
  [j \in 1..(Len(w) + 1) |-> IF j <= i THEN w[j] ELSE IF j = i + 1 THEN x ELSE w[j - 1]]

PairPosition(w, x) == CHOOSE i \in 1..Len(w) : w[i] = x

\* The Map of Sets is kept flat, in iteration order: one pair for each
\* address of each chat, and for a chat whose Set is empty its key alone.
KeyOnly(chatId) == Pair(chatId, "")

HasChat(w, chatId) == LastOf(w, chatId) # 0

\* if (!watchlist.has(chat)) watchlist.set(chat, new Set())
EnsureSet(w, chatId) ==
  IF HasChat(w, chatId) THEN w ELSE Append(w, KeyOnly(chatId))

\* watchlist.get(chat).add(addr)
SetAdd(w, x) ==
  IF KeyOnly(x.chatId) \in Range(w)
    THEN [i \in 1..Len(w) |-> IF w[i] = KeyOnly(x.chatId) THEN x ELSE w[i]]
    ELSE InsertAfter(w, LastOf(w, x.chatId), x)

\* watchlist.get(chat).delete(addr)
SetDelete(w, x) ==
  IF \E i \in 1..Len(w) : w[i].chatId = x.chatId /\ w[i] # x
    THEN SelectSeq(w, LAMBDA y : y # x)
    ELSE [i \in 1..Len(w) |-> IF w[i] = x THEN KeyOnly(x.chatId) ELSE w[i]]

\* an unwatch that leaves the emptied Set in the Map
KeepEmptied(w, chatId) == w

\* if (watchlist.get(chat).size === 0) watchlist.delete(chat)
DeleteIfEmpty(w, chatId) == SelectSeq(w, LAMBDA y : y # KeyOnly(chatId))

\* /watch <proverAddress>: the address joins the chat's Set; a chat without
\* a Set gets one, placed last in the Map
botWatch(chatId, a) ==
  LET x == Pair(chatId, GetAddress(a))
      at == IF LastOf(watchlist, chatId) = 0 THEN Len(watchlist)
            ELSE LastOf(watchlist, chatId)
  IN /\ x \notin Range(watchlist)
     /\ watchlist' = SetAdd(EnsureSet(watchlist, chatId), x)
     /\ sweep' = [s \in SweepIds |->
                    IF BotRunning(s) /\ sweep[s].pc # "epoch" /\ at + 1 < sweep[s].next
                      THEN [sweep[s] EXCEPT !.next = @ + 1]
                      ELSE sweep[s]]
     /\ UNCHANGED <<program, poolVars, chainVars, scanVars, cacheVars, req,
                    alerts, repeats>>

\* /unwatch <proverAddress>: the address leaves the Set, an emptied Set leaves
\* the Map
botUnwatch(chatId, a) ==
  LET x == Pair(chatId, GetAddress(a))
  IN /\ x \in Range(watchlist)
     /\ watchlist' = DeleteIfEmpty(SetDelete(watchlist, x), chatId)
     /\ sweep' = [s \in SweepIds |->
                    IF BotRunning(s)
                      THEN [sweep[s] EXCEPT
                              !.next = IF sweep[s].pc # "epoch"
                                          /\ PairPosition(watchlist, x) < @
                                         THEN @ - 1 ELSE @,
                              !.unchecked = @ \ {x}]
                      ELSE sweep[s]]
     /\ UNCHANGED <<program, poolVars, chainVars, scanVars, cacheVars, req,
                    alerts, repeats>>

\* monitorOnce is called by the timer or at start; with no watch it returns.
\* Otherwise it asks the server's /scan for the first watched prover, to
\* learn the current epoch
monitorOnce(s) ==
  /\ ~BotRunning(s)
  /\ \A q \in SweepIds : q < s => BotRunning(q)
  /\ IF Len(watchlist) = 0
       THEN UNCHANGED sweep
       ELSE sweep' = [sweep EXCEPT ![s] =
                        [BotIdle EXCEPT !.pc = "epoch", !.entry = watchlist[1],
                                        !.unchecked = Range(watchlist)]]
  /\ UNCHANGED <<program, poolVars, chainVars, scanVars, cacheVars, req,
                 watchlist, alerts, repeats>>

\* the head of the nested for-of loops: the next pair, if any, is taken and
\* fetchProverStatus(addr) is called
BotLoopHead(s, sw) ==
  IF sw.next > Len(watchlist)
    THEN sweep' = [sweep EXCEPT ![s] = BotDone(sw)]
    ELSE sweep' = [sweep EXCEPT ![s] =
                     [sw EXCEPT !.pc = "status", !.entry = watchlist[sw.next],
                                !.next = @ + 1,
                                !.unchecked = @ \ {watchlist[sw.next]}]]

\* GET /scan answers with a current epoch; `!data?.currentEpoch` throws on 0
monitorEpochReturn(s) ==
  /\ sweep[s].pc = "epoch"
  /\ IF chainEpoch = 0
       THEN sweep' = [sweep EXCEPT ![s] = BotDone([sweep[s] EXCEPT !.failedOn = {sweep[s].entry}])]
       ELSE BotLoopHead(s, [sweep[s] EXCEPT !.currentEpoch = chainEpoch, !.next = 1])
  /\ UNCHANGED <<program, poolVars, chainVars, scanVars, cacheVars, req,
                 watchlist, alerts, repeats>>

\* GET /scan fails (status 500, timeout): the outer catch logs, monitorOnce ends
monitorEpochThrow(s) ==
  /\ sweep[s].pc = "epoch"
  /\ sweep' = [sweep EXCEPT ![s] = BotDone([sweep[s] EXCEPT !.failedOn = {sweep[s].entry}])]
  /\ UNCHANGED <<program, poolVars, chainVars, scanVars, cacheVars, req,
                 watchlist, alerts, repeats>>

\* what /scan-text reports for a prover when the server's scan succeeds
StatusText ==
  LET epochs == Epochs(DefaultLookback, chainEpoch)
      sc == [IdleScan EXCEPT !.prover = TheProver, !.lookback = DefaultLookback,
                             !.startTime = now, !.currentEpoch = chainEpoch,
                             !.epochs = epochs]
  IN FormatProverMessage(ScanResult(sc, [i \in 1..Len(epochs) |-> reward[epochs[i]]]),
                         DefaultEpochHours, Null)

\* statusText.match(/Last Epoch Participated: (\d+)/): null when the report
\* prints a dash
LastEpochOf(text) == text.lastEpochParticipated

Message(sw, kind) ==
  [chatId |-> sw.entry.chatId, prover |-> sw.entry.prover,
   epoch |-> sw.currentEpoch, kind |-> kind]

\* bot.telegram.sendMessage
Send(a) ==
  /\ alerts' = alerts \cup {a}
  /\ UNCHANGED repeats

\* fetchProverStatus(addr) returns: no participation is reported and the loop
\* continues; otherwise the prover idle for THRESH_IDLE epochs is reported;
\* then sleep(500)
monitorStatusReturn(s) ==
  /\ sweep[s].pc = "status"
  /\ LET lastEpoch == LastEpochOf(StatusText)
         none == Message(sweep[s], "none")
         idle == Message(sweep[s], "idle")
     IN IF lastEpoch = Null
          THEN /\ Send(none)
               /\ BotLoopHead(s, [sweep[s] EXCEPT !.sent = none])
          ELSE IF sweep[s].currentEpoch - lastEpoch >= THRESH_IDLE
            THEN /\ Send(idle)
                 /\ sweep' = [sweep EXCEPT ![s].pc = "sleep", ![s].sent = idle]
            ELSE /\ UNCHANGED <<alerts, repeats>>
                 /\ sweep' = [sweep EXCEPT ![s].pc = "sleep", ![s].sent = NoMessage]
  /\ UNCHANGED <<program, poolVars, chainVars, scanVars, cacheVars, req, watchlist>>

\* fetchProverStatus(addr) throws: the inner catch logs, the loop goes on
monitorStatusThrow(s) ==
  /\ sweep[s].pc = "status"
  /\ BotLoopHead(s, [sweep[s] EXCEPT !.failedOn = @ \cup {sweep[s].entry},
                                     !.sent = NoMessage])
  /\ UNCHANGED <<program, poolVars, chainVars, scanVars, cacheVars, req,
                 watchlist, alerts, repeats>>

\* await sleep(500) is over
monitorSleepDone(s) ==
  /\ sweep[s].pc = "sleep"
  /\ BotLoopHead(s, sweep[s])
  /\ UNCHANGED <<program, poolVars, chainVars, scanVars, cacheVars, req,
                 watchlist, alerts, repeats>>

InitBot ==
  /\ program = "bot"
  /\ PoolAtRest
  /\ chainEpoch = FirstEpoch
  /\ reward \in SweepLedgers
  /\ shares = 0
  /\ ScanAtRest
  /\ CacheAtRest
  /\ ReqsAtRest
  /\ watchlist = <<>>
  /\ sweep = [s \in SweepIds |-> BotIdle]
  /\ alerts = {}
  /\ repeats = {}

NextBot ==
  \/ \E c \in ChatIds, a \in BotProvers : botWatch(c, a)
  \/ \E c \in ChatIds, a \in BotProvers : botUnwatch(c, a)
  \/ \E s \in SweepIds : monitorOnce(s)
  \/ \E s \in SweepIds : monitorEpochReturn(s)
  \/ \E s \in SweepIds : monitorEpochThrow(s)
  \/ \E s \in SweepIds : monitorStatusReturn(s)
  \/ \E s \in SweepIds : monitorStatusThrow(s)
  \/ \E s \in SweepIds : monitorSleepDone(s)
  \/ AdvanceEpoch

SpecBot == InitBot /\ [][NextBot]_vars

\* --------------------------------------------------------------- C13
\* C13: a failure while checking one watch entry is contained to that entry:
\* every other watch entry present for the whole sweep is checked in that
\* sweep, whichever entry's scan failed, the first one included.
C13_FailureContainedToEntry ==
  \A s \in SweepIds :
    sweep[s].pc = "done" => sweep[s].unchecked \subseteq sweep[s].failedOn

\* --------------------------------------------------------------- C14
\* C14: a scan with a malformed participant address is rejected before any
\* chain call is issued: neither getCurrentEpoch nor a reward query is ever
\* in flight or done on its behalf.
C14_MalformedRejectedBeforeAnyCall ==
  ~IsAddress(scan.prover) => (scan.pc \in {"idle", "failed"} /\ queryLog = <<>>)

\* --------------------------------------------------------------- C15
\* C15: for a watch entry visited in a sweep whose scan succeeds, an alert is
\* emitted only if idleEpochs >= 6 and the entry was not yet notified for
\* currentEpoch, and an emitted alert marks the entry as notified for
\* currentEpoch: no idle alert is sent for an entry and an epoch for which
\* one was sent before.
C15_AlertOnlyIfNotNotified ==
  [][\A s \in SweepIds :
       (sweep'[s].sent # sweep[s].sent /\ sweep'[s].sent.kind = "idle") =>
         /\ sweep'[s].sent.epoch - LastEpochOf(StatusText) >= THRESH_IDLE
         /\ sweep'[s].sent \notin alerts]_vars

\* --------------------------------------------------------------- C16
\* C16: a failure to fetch the current epoch during a scheduler sweep is
\* handled inside the sweep: no activation of checkWatchlist ends as a
\* rejection that nobody handles, and the process with its timer stays alive.
C16_EpochFailureHandledInSweep ==
  \A s \in SweepIds : sweep[s].pc \notin {"rejected", "exited"}

\* --------------------------------------------------------------- C17
\* C17: in a scan of more than one batch the inter-batch delay lies between
\* the completion of batch k's reward queries and the issuing of batch k+1's:
\* a batch after the first is issued only from a state in which the scan is
\* waiting in its delay, never in the step that collects the previous batch.
C17_DelayBetweenBatches ==
  [][(scan'.pc = "batch" /\ scan'.b > 1 /\ scan'.b # scan.b) =>
       scan.pc = "building"]_vars

\* --------------------------------------------------------------- C18
\* the reward queries of the scan that have been issued and have neither
\* returned nor failed
QueriesInFlight ==
  IF scan.pc = "batch"
    THEN {k \in DOMAIN scan.raw : scan.raw[k].kind = "pending"}
    ELSE IF scan.pc = "reward" THEN {scan.e} ELSE {}

\* C18: at every moment of a scan at most batchSize of its reward queries
\* are in flight, and no query of batch k+1 is issued before every query of
\* batch k has completed or failed.
C18_BoundedParallelism ==
  /\ [](Cardinality(QueriesInFlight) <= batchSize)
  /\ [][Len(queryLog') > Len(queryLog) => QueriesInFlight = {}]_vars

\* the second batch of a scan is in flight, as many queries as the batch size
C18_Witness ==
  /\ scan.pc = "batch"
  /\ scan.b > 1
  /\ Len(scan.results) = (scan.b - 1) * batchSize
  /\ Cardinality(QueriesInFlight) = batchSize

\* --------------------------------------------------------------- C19
\* C19: a subscriber removed with /watchlist/remove has no watch entry until
\* a later /watchlist/add for it, whatever sweep is in progress: while the
\* subscriber has no entry, the only step that gives it one is the add (whose
\* entry was never notified), and no alert is emitted for it.
C19_RemovedStaysRemoved ==
  [][\A c \in ChatIds :
       ~Watching(watchlist, c) =>
         /\ Watching(watchlist', c) =>
              watchlist'[PositionOf(watchlist', c)].lastNotifiedEpoch = Null
         /\ \A a \in alerts' \ alerts : a.chatId # c]_vars

\* --------------------------------------------------------------- C20
\* the sum of the ledger's rewards over a set of epochs
RECURSIVE LedgerTotal(_)
LedgerTotal(S) ==
  IF S = {} THEN 0
  ELSE LET e == CHOOSE x \in S : TRUE IN reward[e] + LedgerTotal(S \ {e})

\* C20: for a fixed chain state two scans with the same participant and
\* lookback return the same result apart from the duration, whatever
\* transient failures occur in either.  A scan that meets no failure reports
\* the ledger's values for the epochs it queried, so every completed scan
\* must report exactly these.
C20_ResultDeterminedByChain ==
  FreshDone =>
    LET nonzero == {e \in Range(queryLog) : reward[e] > 0}
    IN /\ scan.result.currentEpoch = chainEpoch
       /\ scan.result.totalRewardsWindow = LedgerTotal(Range(queryLog))
       /\ scan.result.participatedCountWindow = Cardinality(nonzero)
       /\ scan.result.lastEpochParticipated =
            (IF nonzero = {} THEN Null ELSE CHOOSE e \in nonzero : \A f \in nonzero : f <= e)

\* ============================================================ progress
\* The pool, the scan and the scheduler under the scheduling the runtime
\* guarantees: a settled promise's continuation runs, a timer that was set
\* fires, a request that was issued is answered, refused or timed out.
InPool == call # <<>>

InSweep == sweep # <<>>

InScan == ~InPool /\ ~InSweep

\* a step of pool call c other than its start
PoolStep(c) ==
  \/ callWithRetryReturn(c)
  \/ callWithRetryCatch(c)
  \/ callWithRetryContinue(c)
  \/ safeCallReturn(c)
  \/ safeCallCatch(c)
  \/ safeCallRetry(c)

\* a step of the scan other than its start
ScanStep ==
  \/ getCurrentEpochThrow
  \/ getCurrentEpochReturn
  \/ getBatchRewardsSleep
  \/ \E k \in 1..MaxLookback : rewardQueryReturn(k)
  \/ \E k \in 1..MaxLookback : rewardQueryCatch(k)
  \/ \E k \in 1..MaxLookback : rewardQueryEmpty(k)
  \/ getBatchRewardsCollect
  \/ legacyGetCurrentEpochThrow
  \/ legacyGetCurrentEpochReturn
  \/ legacyRewardReturn
  \/ legacyRewardThrow
  \/ legacyDelayDone

\* a step of checkWatchlist activation s other than its start
SweepStep(s) ==
  \/ checkWatchlistEpochReturn(s)
  \/ checkWatchlistEpochThrow(s)
  \/ unhandledRejection(s)
  \/ checkWatchlistScanReturn(s)
  \/ checkWatchlistScanThrow(s)
  \/ checkWatchlistSleepDone(s)

\* rewards do not steer any loop: one ledger, every epoch rewarded
FullLedger == [e \in 0..chainEpoch |-> MaxReward]

InitLive ==
  \/ InitPool
  \/ InitScan /\ reward = FullLedger /\ cache = {}
  \/ InitSweep /\ reward = [e \in 0..LastEpoch |-> 0]

\* the scheduler and its two handlers; the clock and the chain stand still,
\* neither steers a loop of checkWatchlist
NextSweepLive ==
  \/ \E s \in SweepIds : checkWatchlist(s)
  \/ \E s \in SweepIds : SweepStep(s)
  \/ \E c \in ChatIds : watchlistAdd(c, TheProver)
  \/ \E c \in ChatIds : watchlistRemove(c)

NextLive ==
  \/ InPool /\ NextPool
  \/ InScan /\ NextScan
  \/ InSweep /\ NextSweepLive

Fairness ==
  /\ \A c \in CallIds : WF_vars(InPool /\ PoolStep(c))
  /\ WF_vars(InScan /\ ScanStep)
  /\ \A s \in SweepIds : WF_vars(InSweep /\ SweepStep(s))

SpecLive == InitLive /\ [][NextLive]_vars /\ Fairness

\* --------------------------------------------------------------- C21
CallRunning(c) == InPool /\ call[c].pc \in {"inflight", "sleep"}

CallSettled(c) == InPool /\ call[c].pc \in {"returned", "thrown"}

\* the attempts a pool call may make: the retry budget of callWithRetry, the
\* number of endpoints for safeCall
AttemptBound == IF program = "optimized" THEN Retries ELSE urlsLength

ScanRunning == InScan /\ scan.pc \notin {"idle", "done", "failed"}

ScanFinished == InScan /\ scan.pc \in {"done", "failed"}

SweepRunning(s) == InSweep /\ sweep[s].pc \in {"epoch", "scan", "sleep"}

\* an entry is created for a subscriber that had none
EntryCreated ==
  \E c \in ChatIds : ~Watching(watchlist, c) /\ Watching(watchlist', c)

C22_EmptyResultIsZero ==
  [][(/\ scan.pc = "batch"
      /\ IsAddress(scan.prover)
      /\ \E k \in DOMAIN scan.raw : scan.raw[k].kind = "0x"
      /\ scan'.pc # "batch")
       => scan'.pc # "failed"]_vars

\* --------------------------------------------------------------- C23
ProverOf(w, chatId) == w[PositionOf(w, chatId)].prover

\* C23: when a sweep records an alert for a subscriber it changes only
\* lastNotifiedEpoch of that subscriber's current entry: no step of a sweep
\* changes the participant of an entry, also when the subscriber subscribed
\* to another participant while the sweep was scanning.
C23_SweepKeepsParticipant ==
  [][(\E s \in SweepIds : SweepStep(s)) =>
       \A c \in ChatIds :
         (Watching(watchlist, c) /\ Watching(watchlist', c)) =>
           ProverOf(watchlist', c) = ProverOf(watchlist, c)]_vars

\* --------------------------------------------------------------- C24
\* C24: no response of /scan-text is based on a chain traversal older than
\* the cache TTL: when a report is served from the text cache, the latest
\* traversal (none is more recent than the one the report was made from) is
\* not older than TTL (an age of exactly TTL, at which the cache still serves
\* an entry, is let pass here).
C24_TextNeverOlderThanTtl ==
  [][\A r \in ReqIds :
       (getScanText(r) /\ req'[r].pc = "done") =>
         /\ lastStore.at # Null
         /\ now - lastStore.at <= TtlMs]_vars

\* ============================================================== reports
\* /scan-text requests that differ in epochHours
EpochHoursValues == {DefaultEpochHours, DefaultEpochHours + 1}

\* ledgers with a reward in the latest epoch only, or in the one before only
ReportLedgers ==
  {[e \in 0..MaxEpoch |-> IF e = k THEN MaxReward ELSE 0] :
     k \in {MaxEpoch - 1, MaxEpoch}}

InitReport ==
  /\ program = "optimized"
  /\ PoolAtRest
  /\ chainEpoch = MaxEpoch
  /\ reward \in ReportLedgers
  /\ shares = 0
  /\ ScanAtRest
  /\ CacheAtRest
  /\ req = [r \in ReqIds |-> IdleReq]
  /\ SweepAtRest

NextReport ==
  \/ \E r \in ReqIds : getScan(r)
  \/ \E r \in ReqIds, epochHours \in EpochHoursValues : getScanTextWith(r, epochHours)
  \/ \E r \in ReqIds : traversalThrow(r)
  \/ \E r \in ReqIds : \E F \in SUBSET (1..MaxEpoch) : traversalReturn(r, F)
  \/ \E r \in ReqIds : sharesReturn(r)
  \/ \E r \in ReqIds : sharesCatch(r)
  \/ \E t \in Instants : Tick(t)

SpecReport == InitReport /\ [][NextReport]_vars

\* --------------------------------------------------------------- C25
\* C25: the report returned by /scan-text is the one computed with the
\* epochHours of that request: a request answered from the text cache gets
\* the idle-hours figure for its own epochHours.
C25_ReportUsesOwnEpochHours ==
  [][\A r \in ReqIds, epochHours \in EpochHoursValues :
       (getScanTextWith(r, epochHours) /\ req'[r].pc = "done") =>
         LET text == Entry(cache, CacheKey("scan-text", TheProver, DefaultLookback)).val
         IN text.idleEpochs # Null =>
              text.idleHours = text.idleEpochs * epochHours]_vars

\* --------------------------------------------------------------- C26
\* C26: in the bot's watchlist every subscriber present maps to a non-empty
\* set of participants (a subscriber whose last participant is unwatched is
\* removed), so the sample participant a sweep takes from the first
\* subscriber is defined whenever the watchlist is not empty.
C26_NoEmptySetSampleDefined ==
  /\ \A i \in 1..Len(watchlist) : watchlist[i] # KeyOnly(watchlist[i].chatId)
  /\ \A s \in SweepIds : sweep[s].pc = "epoch" => sweep[s].entry.prover \in
       {GetAddress(a) : a \in BotProvers}

\* a subscriber's last participant was unwatched after a sweep had sent it a
\* message, and the watchlist is empty again
C26_Witness ==
  /\ watchlist = <<>>
  /\ alerts # {}

====
